---- MODULE Spec2Model ----
(***************************************************************************)
(* Quiz feature of judge-gpt-quiz-fe: the /api/quiz route handlers (GET,   *)
(* POST) and the QuizView component.                                       *)
(*                                                                         *)
(* JavaScript values are records [type, val]: type is what `typeof` gives  *)
(* and val is the value's text, so that "1500" the string and 1500 the     *)
(* number are different values and truthiness is computed, not assumed.    *)
(* A request is a NextRequest: its url is a valid absolute URL, so         *)
(* `new URL(req.url)` yields a searchParams object and the                 *)
(* "Invalid query parameters" branch is never taken.                       *)
(***************************************************************************)
EXTENDS Naturals, Sequences, FiniteSets

VARIABLES
    pc,            \* position of the route handler: idle, start, awaitFetch, awaitJson, awaitStore, done
    req,           \* the request being handled
    responses,     \* NextResponse.json(...) values returned for this request
    fetchCalls,    \* arguments of the fetchArticlesForUser calls of this request
    storeCalls,    \* arguments of the storeUserResponse calls of this request
    collabResult,  \* what the awaited collaborator produced for this request
    escaped,       \* an exception left the handler
    humanAiOptionChecked,   \* prop of QuizView, owned by the caller
    realFakeOptionChecked,  \* prop of QuizView, owned by the caller
    submitDisabled,         \* the `disabled` attribute of the rendered submit button
    callbackCalls,          \* arguments of the onSubmitCallback calls for the current article
    event,                  \* the last UI event handled
    clicks                  \* number of UI events handled

apiVars  == <<pc, req, responses, fetchCalls, storeCalls, collabResult, escaped>>
viewVars == <<humanAiOptionChecked, realFakeOptionChecked, submitDisabled,
              callbackCalls, event, clicks>>
vars     == <<pc, req, responses, fetchCalls, storeCalls, collabResult, escaped,
              humanAiOptionChecked, realFakeOptionChecked, submitDisabled,
              callbackCalls, event, clicks>>

\* Number of UI events explored in the view.
MaxClicks == 5

-----------------------------------------------------------------------------
(* JavaScript values *)

JsVal(t, v) == [type |-> t, val |-> v]

Undefined == JsVal("undefined", "undefined")
Null      == JsVal("object", "null")
True      == JsVal("boolean", "true")
False     == JsVal("boolean", "false")
Zero      == JsVal("number", "0")
Num1500   == JsVal("number", "1500")
EmptyStr  == JsVal("string", "")
Str(s)    == JsVal("string", s)
EmptyArr  == JsVal("object", "[]")
Articles  == JsVal("object", "[article]")
Thrown    == JsVal("throw", "Error")

TypeOf(v) == v.type

\* ToBoolean: undefined, null, false, 0 and "" are falsy; objects and arrays
\* (the empty array included) are truthy.
Truthy(v) == v \notin {Undefined, Null, False, Zero, EmptyStr}

\* Values a field of the JSON body can carry (Undefined: the key is absent).
FieldValues == {Undefined, Null, True, False, Zero, Num1500,
                EmptyStr, Str("a1")}

\* What searchParams.get can give: null when the parameter is absent.
ParamValues == {Null, EmptyStr, Str("u1")}

\* What fetchArticlesForUser / storeUserResponse can produce.
FetchOutcomes == {Null, Undefined, EmptyArr, Articles, Thrown}
StoreOutcomes == {True, False, Undefined, Null, Str("stored"), Thrown}

BodyKinds == {"absent", "malformed", "null", "primitive", "array", "object"}

NoFields == [articleUid |-> Undefined, userRespondedIsHuman |-> Undefined,
             userRespondedIsFake |-> Undefined, timeToRespond |-> Undefined]

Bodies ==
    { [kind |-> k, fields |-> NoFields] : k \in BodyKinds \ {"object"} }
    \cup
    { [kind |-> "object",
       fields |-> [articleUid |-> a, userRespondedIsHuman |-> h,
                   userRespondedIsFake |-> f, timeToRespond |-> t]] :
         a \in FieldValues, h \in FieldValues, f \in FieldValues, t \in FieldValues }

NoRequest == [method |-> "none", userUid |-> Null, locale |-> Null,
              body |-> [kind |-> "absent", fields |-> NoFields]]

Requests ==
    { [method |-> "GET", userUid |-> u, locale |-> l,
       body |-> [kind |-> "absent", fields |-> NoFields]] :
         u \in ParamValues, l \in ParamValues }
    \cup
    { [method |-> "POST", userUid |-> u, locale |-> Null, body |-> b] :
         u \in ParamValues, b \in Bodies }

Response(status, key, val) == [status |-> status, key |-> key, val |-> val]

-----------------------------------------------------------------------------
(* Route handlers *)

\* return NextResponse.json(...)
Return(status, key, val) ==
    /\ responses' = Append(responses, Response(status, key, val))
    /\ pc' = "done"

CatchEscapes ==
    /\ escaped' = TRUE
    /\ pc' = "done"
    /\ UNCHANGED responses

\* catch (error) { return NextResponse.json({error: "Internal Server Error"}, {status: 500}) }
Catch ==
    /\ Return(500, "error", "Internal Server Error")
    /\ UNCHANGED escaped

GetValidateNoLocale(userUid, locale) ==
    IF ~Truthy(userUid) THEN "User ID is required"
    ELSE IF TypeOf(userUid) # "string" THEN "Invalid User ID"
    ELSE "ok"

\* The checks of GET before the collaborator is called.
GetValidate(userUid, locale) ==
    IF ~Truthy(userUid) THEN "User ID is required"
    ELSE IF ~Truthy(locale) THEN "Locale is required"
    ELSE IF TypeOf(userUid) # "string" THEN "Invalid User ID"
    ELSE IF TypeOf(locale) # "string" THEN "Invalid Locale"
    ELSE "ok"

\* The checks of POST on the query and on req.body, before req.json().
PostValidateQuery(userUid, body) ==
    IF ~Truthy(userUid) THEN "User ID is required"
    ELSE IF TypeOf(userUid) # "string" THEN "Invalid User ID"
    ELSE IF body.kind = "absent" THEN "Invalid request body"
    ELSE "ok"

\* await req.json() throws a SyntaxError on text that is not JSON, and
\* destructuring null throws a TypeError.
JsonThrows(body) == body.kind \in {"malformed", "null"}

\* const { articleUid, ... } = await req.json(): a property that the parsed
\* value does not have is undefined.
Destructure(body) == IF body.kind = "object" THEN body.fields ELSE NoFields

PostValidateBodyTimeFirst(f) ==
    IF TypeOf(f.timeToRespond) # "number" THEN "Invalid time to respond"
    ELSE IF ~Truthy(f.articleUid) THEN "Article ID is required"
    ELSE IF TypeOf(f.articleUid) # "string" THEN "Invalid Article ID"
    ELSE IF TypeOf(f.userRespondedIsHuman) # "boolean" THEN "Invalid user response"
    ELSE IF TypeOf(f.userRespondedIsFake) # "boolean" THEN "Invalid user response"
    ELSE "ok"

PostValidateBodyNoFake(f) ==
    IF ~Truthy(f.articleUid) THEN "Article ID is required"
    ELSE IF TypeOf(f.articleUid) # "string" THEN "Invalid Article ID"
    ELSE IF TypeOf(f.userRespondedIsHuman) # "boolean" THEN "Invalid user response"
    ELSE IF TypeOf(f.timeToRespond) # "number" THEN "Invalid time to respond"
    ELSE "ok"

PostValidateBodyNoTime(f) ==
    IF ~Truthy(f.articleUid) THEN "Article ID is required"
    ELSE IF TypeOf(f.articleUid) # "string" THEN "Invalid Article ID"
    ELSE IF TypeOf(f.userRespondedIsHuman) # "boolean" THEN "Invalid user response"
    ELSE IF TypeOf(f.userRespondedIsFake) # "boolean" THEN "Invalid user response"
    ELSE "ok"

\* The checks of POST on the destructured body.
PostValidateBody(f) ==
    IF ~Truthy(f.articleUid) THEN "Article ID is required"
    ELSE IF TypeOf(f.articleUid) # "string" THEN "Invalid Article ID"
    ELSE IF TypeOf(f.userRespondedIsHuman) # "boolean" THEN "Invalid user response"
    ELSE IF TypeOf(f.userRespondedIsFake) # "boolean" THEN "Invalid user response"
    ELSE IF TypeOf(f.timeToRespond) # "number" THEN "Invalid time to respond"
    ELSE "ok"

\* The argument of storeUserResponse.
UserResponse(userUid, f) ==
    [userUid |-> userUid, articleUid |-> f.articleUid,
     userRespondedIsHuman |-> f.userRespondedIsHuman,
     userRespondedIsFake |-> f.userRespondedIsFake,
     timeToRespond |-> f.timeToRespond]

StoredFalsy(isCorrect) == ~Truthy(isCorrect)

\* if (typeof isCorrect !== "boolean")
NotStored(isCorrect) == TypeOf(isCorrect) # "boolean"

\* A request arrives and the route handler for its method is entered.
NewRequest ==
    /\ pc = "idle"
    /\ \E r \in Requests : req' = r
    /\ pc' = "start"
    /\ responses' = <<>>
    /\ fetchCalls' = <<>>
    /\ storeCalls' = <<>>
    /\ collabResult' = Undefined
    /\ escaped' = FALSE
    /\ UNCHANGED viewVars

\* GET up to `await fetchArticlesForUser(userUid)`.
GET_validate ==
    /\ pc = "start" /\ req.method = "GET"
    /\ LET e == GetValidate(req.userUid, req.locale) IN
         IF e # "ok"
         THEN /\ Return(400, "error", e)
              /\ UNCHANGED fetchCalls
         ELSE /\ fetchCalls' = Append(fetchCalls, req.userUid)
              /\ pc' = "awaitFetch"
              /\ UNCHANGED responses
    /\ UNCHANGED <<req, storeCalls, collabResult, escaped>>
    /\ UNCHANGED viewVars

\* GET after fetchArticlesForUser has settled.
GET_afterFetch ==
    /\ pc = "awaitFetch"
    /\ \E questions \in FetchOutcomes :
         /\ collabResult' = questions
         /\ IF questions = Thrown THEN Catch
            ELSE /\ IF ~Truthy(questions)
                    THEN Return(404, "error", "Quiz questions not found")
                    ELSE Return(200, "articles", questions.val)
                 /\ UNCHANGED escaped
    /\ UNCHANGED <<req, fetchCalls, storeCalls>>
    /\ UNCHANGED viewVars

\* POST up to `await req.json()`.
POST_validate ==
    /\ pc = "start" /\ req.method = "POST"
    /\ LET e == PostValidateQuery(req.userUid, req.body) IN
         IF e # "ok"
         THEN Return(400, "error", e)
         ELSE /\ pc' = "awaitJson"
              /\ UNCHANGED responses
    /\ UNCHANGED <<req, fetchCalls, storeCalls, collabResult, escaped>>
    /\ UNCHANGED viewVars

\* POST from the settling of req.json() to `await storeUserResponse(...)`.
POST_afterJson ==
    /\ pc = "awaitJson"
    /\ IF JsonThrows(req.body)
       THEN Catch /\ UNCHANGED storeCalls
       ELSE LET f == Destructure(req.body)
                e == PostValidateBody(f) IN
              /\ IF e # "ok"
                 THEN /\ Return(400, "error", e)
                      /\ UNCHANGED storeCalls
                 ELSE /\ storeCalls' = Append(storeCalls, UserResponse(req.userUid, f))
                      /\ pc' = "awaitStore"
                      /\ UNCHANGED responses
              /\ UNCHANGED escaped
    /\ UNCHANGED <<req, fetchCalls, collabResult>>
    /\ UNCHANGED viewVars

\* POST after storeUserResponse has settled.
POST_afterStore ==
    /\ pc = "awaitStore"
    /\ \E isCorrect \in StoreOutcomes :
         /\ collabResult' = isCorrect
         /\ IF isCorrect = Thrown THEN Catch
            ELSE /\ IF NotStored(isCorrect)
                    THEN Return(404, "error", "User response not stored")
                    ELSE Return(200, "isCorrect", isCorrect.val)
                 /\ UNCHANGED escaped
    /\ UNCHANGED <<req, fetchCalls, storeCalls>>
    /\ UNCHANGED viewVars

\* The handler has returned; requests are handled independently, nothing of
\* this one is kept.
Complete ==
    /\ pc = "done"
    /\ pc' = "idle"
    /\ req' = NoRequest
    /\ responses' = <<>>
    /\ fetchCalls' = <<>>
    /\ storeCalls' = <<>>
    /\ collabResult' = Undefined
    /\ escaped' = FALSE
    /\ UNCHANGED viewVars

-----------------------------------------------------------------------------
(* QuizView *)

SubmitDisabledBothUnset(h, r) == h = "null" /\ r = "null"

\* disabled={!humanAiOptionChecked || !realFakeOptionChecked}
SubmitDisabled(h, r) == h = "null" \/ r = "null"

\* The component is rendered again with the props the caller now holds.
Render ==
    submitDisabled' = SubmitDisabled(humanAiOptionChecked', realFakeOptionChecked')

Handled(e) ==
    /\ clicks < MaxClicks
    /\ clicks' = clicks + 1
    /\ event' = e

HumanAiClickClearsOther(variant) ==
    /\ Handled(variant)
    /\ humanAiOptionChecked' = variant
    /\ realFakeOptionChecked' = "null"
    /\ UNCHANGED callbackCalls
    /\ Render
    /\ UNCHANGED apiVars

\* onClick={() => setHumanAiOptionChecked(variant)}
HumanAiClick(variant) ==
    /\ Handled(variant)
    /\ humanAiOptionChecked' = variant
    /\ UNCHANGED <<realFakeOptionChecked, callbackCalls>>
    /\ Render
    /\ UNCHANGED apiVars

\* onClick={() => setRealFakeOptionChecked(variant)}
RealFakeClick(variant) ==
    /\ Handled(variant)
    /\ realFakeOptionChecked' = variant
    /\ UNCHANGED <<humanAiOptionChecked, callbackCalls>>
    /\ Render
    /\ UNCHANGED apiVars

\* The onClick of the submit button.
SubmitClick ==
    /\ Handled("submit")
    /\ IF humanAiOptionChecked # "null" /\ realFakeOptionChecked # "null"
       THEN callbackCalls' = Append(callbackCalls,
                [humanOptionSelected |-> (humanAiOptionChecked = "human"),
                 isFakeSelected |-> (realFakeOptionChecked = "fake")])
       ELSE UNCHANGED callbackCalls
    /\ UNCHANGED <<humanAiOptionChecked, realFakeOptionChecked>>
    /\ Render
    /\ UNCHANGED apiVars

\* The owner of the selection state moves to the next article.
CallerReset ==
    /\ event # "reset"
    /\ event' = "reset"
    /\ humanAiOptionChecked' = "null"
    /\ realFakeOptionChecked' = "null"
    /\ callbackCalls' = <<>>
    /\ UNCHANGED clicks
    /\ Render
    /\ UNCHANGED apiVars

-----------------------------------------------------------------------------
(* Specifications *)

Init ==
    /\ pc = "idle"
    /\ req = NoRequest
    /\ responses = <<>>
    /\ fetchCalls = <<>>
    /\ storeCalls = <<>>
    /\ collabResult = Undefined
    /\ escaped = FALSE
    /\ humanAiOptionChecked = "null"
    /\ realFakeOptionChecked = "null"
    /\ submitDisabled = TRUE
    /\ callbackCalls = <<>>
    /\ event = "none"
    /\ clicks = 0

NextApi ==
    \/ NewRequest
    \/ GET_validate
    \/ GET_afterFetch
    \/ POST_validate
    \/ POST_afterJson
    \/ POST_afterStore
    \/ Complete

NextView ==
    \/ \E variant \in {"human", "ai"} : HumanAiClick(variant)
    \/ \E variant \in {"real", "fake"} : RealFakeClick(variant)
    \/ SubmitClick
    \/ CallerReset

SpecApi  == Init /\ [][NextApi]_vars
SpecView == Init /\ [][NextView]_vars

TypeOK ==
    /\ pc \in {"idle", "start", "awaitFetch", "awaitJson", "awaitStore", "done"}
    /\ req \in Requests \cup {NoRequest}
    /\ Len(responses) <= 1
    /\ humanAiOptionChecked \in {"null", "human", "ai"}
    /\ realFakeOptionChecked \in {"null", "real", "fake"}
    /\ clicks \in 0..MaxClicks

-----------------------------------------------------------------------------
(* Properties *)

Done(method) == pc = "done" /\ req.method = method

Missing(v) == v \in {Null, EmptyStr}

Error(status, msg) == <<Response(status, "error", msg)>>

\* C1: a GET with non-empty userUid and locale whose collaborator returns
\* null, undefined or an empty array is answered 404 "Quiz questions not found".
C1_Claim ==
    ( /\ Done("GET")
      /\ ~Missing(req.userUid) /\ ~Missing(req.locale)
      /\ Len(fetchCalls) = 1
      /\ collabResult \in {Null, Undefined, EmptyArr} )
    => responses = Error(404, "Quiz questions not found")

\* C2: a POST with a valid userUid whose body is absent, malformed JSON or
\* JSON null is answered 400, never 500.
C2_Claim ==
    ( /\ Done("POST")
      /\ ~Missing(req.userUid)
      /\ req.body.kind \in {"absent", "malformed", "null"} )
    => /\ Len(responses) = 1
       /\ responses[1].status = 400

\* A value that is neither absent nor empty.
Supplied(v) == v \notin {Undefined, Null, EmptyStr}

\* A value that is none of undefined, null, "", 0 and false.
Present(v) == v \notin {Undefined, Null, EmptyStr, Zero, False}

\* The checks of a POST in the order the specification lists them, given
\* whether articleUid counts as present.
PostChecks(r, articleUidPresent) ==
    << [ok |-> Supplied(r.userUid),
        msg |-> "User ID is required"],
       [ok |-> articleUidPresent,
        msg |-> "Article ID is required"],
       [ok |-> r.body.fields.articleUid.type = "string",
        msg |-> "Invalid Article ID"],
       [ok |-> r.body.fields.userRespondedIsHuman \in {True, False},
        msg |-> "Invalid user response"],
       [ok |-> r.body.fields.userRespondedIsFake \in {True, False},
        msg |-> "Invalid user response"],
       [ok |-> r.body.fields.timeToRespond.type = "number",
        msg |-> "Invalid time to respond"] >>

FirstFailureWins(checks) ==
    LET failing == { i \in 1..Len(checks) : ~checks[i].ok }
        first   == CHOOSE i \in failing : \A j \in failing : i <= j
    IN  /\ Len(responses) = 1
        /\ IF failing # {}
           THEN responses = Error(400, checks[first].msg)
           ELSE responses[1].status # 400

\* C3 as stated: a POST whose body is a JSON object is answered with the 400
\* of the first failing check in the fixed order userUid present, articleUid
\* present, articleUid string, userRespondedIsHuman boolean,
\* userRespondedIsFake boolean, timeToRespond number; when no check fails
\* the answer is not a 400.
C3_Claim ==
    ( Done("POST") /\ req.body.kind = "object" )
    => FirstFailureWins(PostChecks(req, Supplied(req.body.fields.articleUid)))

\* C3 amended: the same, where articleUid counts as present only when it is
\* truthy: an articleUid of 0 or false is answered "Article ID is required"
\* like an absent, null or empty one, not "Invalid Article ID".
C3_FirstFailureWins ==
    ( Done("POST") /\ req.body.kind = "object" )
    => FirstFailureWins(PostChecks(req, Present(req.body.fields.articleUid)))

AllChecksPass(r) ==
    \A i \in 1..6 : PostChecks(r, Present(r.body.fields.articleUid))[i].ok

C3_Witness ==
    /\ Done("POST") /\ req.body.kind = "object"
    /\ req.userUid = Str("u1")
    /\ req.body.fields.articleUid = Zero
    /\ req.body.fields.userRespondedIsHuman = Null
    /\ req.body.fields.timeToRespond = Str("a1")
    /\ responses = Error(400, "Article ID is required")

TimeIsString == req.body.kind = "object" /\ req.body.fields.timeToRespond.type = "string"

OtherFieldsValid ==
    /\ Present(req.userUid)
    /\ Present(req.body.fields.articleUid)
    /\ req.body.fields.articleUid.type = "string"
    /\ req.body.fields.userRespondedIsHuman \in {True, False}
    /\ req.body.fields.userRespondedIsFake \in {True, False}

\* C4 as stated: a POST whose timeToRespond is a string is answered
\* 400 "Invalid time to respond" whether or not the other fields are valid.
C4_Claim ==
    ( Done("POST") /\ TimeIsString )
    => responses = Error(400, "Invalid time to respond")

\* C4 amended: a POST whose timeToRespond is a string is always answered 400
\* without storing anything, and the error is "Invalid time to respond"
\* exactly when the other fields are valid.
C4_Amended ==
    ( Done("POST") /\ TimeIsString )
    => /\ Len(responses) = 1
       /\ responses[1].status = 400
       /\ responses[1].key = "error"
       /\ (responses[1].val = "Invalid time to respond") <=> OtherFieldsValid
       /\ storeCalls = <<>>

C4_Witness ==
    /\ Done("POST") /\ TimeIsString /\ OtherFieldsValid
    /\ responses = Error(400, "Invalid time to respond")

WellTyped(u) ==
    /\ u.userUid.type = "string" /\ u.userUid # EmptyStr
    /\ u.articleUid.type = "string" /\ u.articleUid # EmptyStr
    /\ u.userRespondedIsHuman \in {True, False}
    /\ u.userRespondedIsFake \in {True, False}
    /\ u.timeToRespond.type = "number"

\* C5: storeUserResponse is called only for a POST that passed every check,
\* at most once, with the five fields of the request, each of its type; a
\* request answered 400 never reaches the collaborator.
C5_StoreOnlyValid ==
    /\ Len(storeCalls) <= 1
    /\ storeCalls # <<>> =>
         /\ req.method = "POST"
         /\ req.body.kind = "object"
         /\ AllChecksPass(req)
         /\ WellTyped(storeCalls[1])
         /\ storeCalls[1].userUid = req.userUid
         /\ storeCalls[1].articleUid = req.body.fields.articleUid
         /\ storeCalls[1].userRespondedIsHuman = req.body.fields.userRespondedIsHuman
         /\ storeCalls[1].userRespondedIsFake = req.body.fields.userRespondedIsFake
         /\ storeCalls[1].timeToRespond = req.body.fields.timeToRespond
    /\ \A i \in 1..Len(responses) : responses[i].status = 400 => storeCalls = <<>>

C5_Witness ==
    /\ pc = "awaitStore"
    /\ storeCalls = << [userUid |-> Str("u1"), articleUid |-> Str("a1"),
                        userRespondedIsHuman |-> False, userRespondedIsFake |-> True,
                        timeToRespond |-> Zero] >>

\* C6: a POST that passed validation is answered 200 {isCorrect: true} when
\* storeUserResponse returns true, 200 {isCorrect: false} when it returns
\* false, and 404 "User response not stored" when it returns a non-boolean.
C6_StoreResult ==
    ( Done("POST") /\ Len(storeCalls) = 1 /\ collabResult # Thrown )
    => responses =
         IF collabResult = True THEN <<Response(200, "isCorrect", "true")>>
         ELSE IF collabResult = False THEN <<Response(200, "isCorrect", "false")>>
         ELSE Error(404, "User response not stored")

C6_Witness ==
    /\ Done("POST") /\ Len(storeCalls) = 1 /\ collabResult = False
    /\ responses = <<Response(200, "isCorrect", "false")>>

\* C7: an exception thrown by a collaborator or by body parsing is caught
\* and answered 500 "Internal Server Error"; no exception leaves a handler,
\* and a handler returns exactly one response, of status 200, 400, 404 or 500.
C7_CaughtAndSingle ==
    /\ ~escaped
    /\ pc # "done" => responses = <<>>
    /\ pc = "done" =>
         /\ Len(responses) = 1
         /\ responses[1].status \in {200, 400, 404, 500}
    /\ ( pc = "done" /\
         \/ collabResult = Thrown
         \/ ( /\ req.method = "POST" /\ Present(req.userUid)
              /\ req.body.kind \in {"malformed", "null"} ) )
       => responses = Error(500, "Internal Server Error")

C7_Witness ==
    /\ Done("GET") /\ collabResult = Thrown
    /\ responses = Error(500, "Internal Server Error")

\* C8: a GET whose userUid or locale is absent or empty is answered 400 with
\* "User ID is required" when userUid is missing and "Locale is required"
\* when only locale is, and fetchArticlesForUser is not called.
C8_GetMissingParam ==
    ( req.method = "GET" /\ (Missing(req.userUid) \/ Missing(req.locale)) )
    => /\ fetchCalls = <<>>
       /\ pc = "done" =>
            responses = Error(400, IF Missing(req.userUid)
                                   THEN "User ID is required"
                                   ELSE "Locale is required")

C8_Witness ==
    /\ Done("GET") /\ req.userUid = Str("u1") /\ req.locale = EmptyStr
    /\ responses = Error(400, "Locale is required")

SubmitStep == event' = "submit" /\ clicks' = clicks + 1

BothSet == humanAiOptionChecked # "null" /\ realFakeOptionChecked # "null"

C9_Step ==
    SubmitStep =>
        IF BothSet
        THEN callbackCalls' = Append(callbackCalls,
                 [humanOptionSelected |-> (humanAiOptionChecked = "human"),
                  isFakeSelected |-> (realFakeOptionChecked = "fake")])
        ELSE callbackCalls' = callbackCalls

\* C9: the submit control is disabled exactly when a selector is null; a
\* submit click with both selectors set calls onSubmitCallback once with
\* humanOptionSelected = (human chosen) and isFakeSelected = (fake chosen),
\* and a submit click with a selector null does not call it.
C9_SubmitGate ==
    /\ [](submitDisabled <=> ~BothSet)
    /\ [][C9_Step]_vars

C9_Witness ==
    /\ event = "submit"
    /\ humanAiOptionChecked = "ai" /\ realFakeOptionChecked = "real"
    /\ callbackCalls = << [humanOptionSelected |-> FALSE, isFakeSelected |-> FALSE] >>

C10_Step ==
    /\ ( clicks' = clicks + 1 /\ event' \in {"human", "ai"} ) =>
          /\ humanAiOptionChecked' = event'
          /\ realFakeOptionChecked' = realFakeOptionChecked
          /\ callbackCalls' = callbackCalls
    /\ ( clicks' = clicks + 1 /\ event' \in {"real", "fake"} ) =>
          /\ realFakeOptionChecked' = event'
          /\ humanAiOptionChecked' = humanAiOptionChecked
          /\ callbackCalls' = callbackCalls
    /\ clicks' = clicks + 1 =>
          /\ humanAiOptionChecked # "null" => humanAiOptionChecked' # "null"
          /\ realFakeOptionChecked # "null" => realFakeOptionChecked' # "null"
    /\ SubmitStep =>
          /\ humanAiOptionChecked' = humanAiOptionChecked
          /\ realFakeOptionChecked' = realFakeOptionChecked
          /\ submitDisabled' = submitDisabled
          /\ ~submitDisabled => Len(callbackCalls') = Len(callbackCalls) + 1

\* C10: a human/ai click sets only the human/ai selection and a real/fake
\* click only the real/fake selection, no event of the view sets a selection
\* back to null, and a submit click leaves both selections and the submit
\* control as they were, so that a further click calls the callback again.
C10_IndependentNoReset == [][C10_Step]_vars

C10_Witness ==
    /\ event = "submit"
    /\ ~submitDisabled
    /\ Len(callbackCalls) = 2
    /\ callbackCalls[1] = callbackCalls[2]

====
